---- MODULE Spec2Model ----
(***************************************************************************)
(* Test-run execution engine of the Dialogflow agent tester.               *)
(*                                                                         *)
(* The model follows one TestRun row from create_test_run through          *)
(* TestRunExecutionService.execute_test_run, together with the requests    *)
(* that touch the same rows while it executes: cancel_test_run,            *)
(* update_test_run, add_question, delete_question and get_test_progress.   *)
(*                                                                         *)
(* The database is the shared state.  execute_test_run is split at every   *)
(* point where it talks to the database or awaits a remote call, because   *)
(* the other requests are ordinary HTTP requests (possibly served by       *)
(* another instance of the service) whose commits can land between any two *)
(* of its statements.  Each of those requests is one short transaction and *)
(* is modelled as one step.                                                *)
(*                                                                         *)
(* Session semantics used by execute_test_run (sessionmaker with           *)
(* autocommit=False, autoflush=False and the default expire_on_commit):    *)
(*   - commit() writes the pending rows and the attributes that changed    *)
(*     since they were loaded, then expires every loaded object;           *)
(*   - an attribute assigned the value it was loaded with is not written;  *)
(*   - an exception raised by a flush rolls the transaction back and       *)
(*     leaves the session unusable until rollback() is called, which       *)
(*     execute_test_run never does; a COMMIT that fails rolls back and     *)
(*     expires every object, and the next use begins a new transaction;    *)
(*   - an exception raised elsewhere leaves the transaction, with the rows *)
(*     flushed so far, open.                                               *)
(***************************************************************************)
EXTENDS Integers, Sequences, FiniteSets, TLC

\* ------------------------------------------------------------------ bounds
MaxQuestions == 4      \* question ids are 1..MaxQuestions
MaxBatch     == 2      \* largest batch_size a run is created with
MaxPrompts   == 1      \* longest pre/post prompt list
MaxRequests  == 1      \* API requests issued while a run exists or is set up
MaxFaults    == 1      \* remote calls and database statements that raise
MaxSeq       == 2      \* longest pre/post prompt list of a conversation applied on its own
MaxParams    == 2      \* most parameter results of one question
MaxText      == 3      \* most characters after "SCORE:" in a Judge Model reply
MaxActive    == 7      \* most active evaluation parameters when the defaults are built
MaxClock     == 1      \* seconds the clock advances while a run executes
MaxChunks    == 2      \* chunks evaluated while the evaluation configuration changes
MaxConfigRequests == 2 \* requests that change parameters and configs

\* The ids of the EvaluationParameter rows.
ParameterIds == 1..(MaxParams + 1)

\* --------------------------------------------------------------- constants
None     == <<>>       \* Python None (and the empty string of a text column)
NoAnswer == <<>>       \* ""

Statuses == {"pending", "running", "completed", "failed", "cancelled"}
Terminal == {"completed", "failed", "cancelled"}

\* batch_size is an unvalidated int of TestRunCreate: zero and negative
\* values reach execute_test_run.
BatchSizes == (1..MaxBatch) \cup {0, -1}

Min(a, b) == IF a < b THEN a ELSE b

\* dict.get(key, default)
Get(d, k, default) == IF k \in DOMAIN d THEN d[k] ELSE default

\* Python's `a or b` on values whose falsy forms are None / "" / {}
Or(a, b) == IF a # <<>> THEN a ELSE b

Range(s) == {s[k] : k \in DOMAIN s}

VARIABLES
    dataset,              \* Question rows of the dataset, in id order (ids)
    nextId,               \* next Question.id
    run,                  \* the TestRun row (status "absent" before creation)
    results,              \* committed TestResult rows of the run, in insert order
    pc,                   \* where execute_test_run stands
    sessStatus,           \* test_run.status as loaded in execute_test_run's session
    questions,            \* execute_test_run: questions
    i,                    \* execute_test_run: loop offset i
    completed_questions,  \* execute_test_run: local counter
    total_score,          \* execute_test_run: local
    successful_evaluations, \* execute_test_run: local
    dialogflow_results,   \* results of the chunk's conversation calls, by position
    evaluation_results,   \* results of the chunk's evaluations, by position
    sent,                 \* turns sent to the Agent Conversation API, in order
    raised,               \* <<question, turn>>: the turn of the question's conversation that raised
    expired,              \* questions whose objects are expired in the session
    cancelPc,             \* pc at which the cancel now in force was accepted
    cancelCompleted,      \* run.completed_questions when it was accepted
    observed,             \* completed_questions last returned by get_test_progress
    reqs,                 \* API requests issued so far
    faults,               \* raising calls and statements so far
    auth_configured,      \* LLMJudgeService.auth_configured
    model_available,      \* LLMJudgeService.model_available
    call,                 \* the last call of a pure operation: its arguments and what it returned
    now,                  \* int(time.time()) as last read, in seconds since the run was created
    session_ids,          \* <<question, position, second>>: the session id of each conversation started
    active_parameters,    \* ids of the EvaluationParameter rows with is_active
    test_run_config,      \* <<parameters of the run's TestRunEvaluationConfig>>, <<>> before the run is created
    default_config,         \* parameters of the user's default TestRunEvaluationConfig
    scored                \* per chunk evaluated: the parameters its questions were scored with

vars == <<dataset, nextId, run, results, pc, sessStatus, questions, i,
          completed_questions, total_score, successful_evaluations,
          dialogflow_results, evaluation_results, sent, raised, expired,
          cancelPc, cancelCompleted, observed, reqs, faults,
          auth_configured, model_available, call, now, session_ids,
          active_parameters, test_run_config, default_config, scored>>

dbVars    == <<dataset, nextId, run, results>>
execVars  == <<pc, sessStatus, questions, i, completed_questions, total_score,
               successful_evaluations, dialogflow_results, evaluation_results,
               sent, raised, expired>>
ghostVars == <<cancelPc, cancelCompleted, observed>>
configVars == <<active_parameters, test_run_config, default_config, scored>>
unitVars  == <<auth_configured, model_available, call, configVars>>
clockVars == <<now, session_ids>>
runVars   == <<dbVars, execVars, ghostVars, reqs, faults, clockVars, configVars>>

NoCall == [op |-> "none"]

NoRun == [status |-> "absent", total_questions |-> 0, completed_questions |-> 0,
          average_score |-> -1, started_at |-> FALSE, completed_at |-> FALSE,
          batch_size |-> 0, pre |-> 0, post |-> 0]

Init ==
    /\ dataset \in {[k \in 1..n |-> k] : n \in 1..MaxQuestions}
    /\ nextId = Len(dataset) + 1
    /\ run = NoRun
    /\ results = <<>>
    /\ pc = "none"
    /\ sessStatus = "absent"
    /\ questions = <<>>
    /\ i = 0
    /\ completed_questions = 0
    /\ total_score = 0
    /\ successful_evaluations = 0
    /\ dialogflow_results = <<>>
    /\ evaluation_results = <<>>
    /\ sent = <<>>
    /\ raised = {}
    /\ expired = {}
    /\ cancelPc = "-"
    /\ cancelCompleted = 0
    /\ observed = -1
    /\ reqs = 0
    /\ faults = 0
    /\ auth_configured = FALSE
    /\ model_available = FALSE
    /\ call = NoCall
    /\ now = 0
    /\ session_ids = <<>>
    /\ active_parameters = ParameterIds
    /\ test_run_config = <<>>
    /\ default_config = None
    /\ scored = <<>>

\* ------------------------------------------------------------ API requests

\* POST /tests/: counts the questions, inserts the row as pending and queues
\* execute_test_run as a background task.
create_test_run(bs, npre, npost) ==
    /\ run.status = "absent"
    /\ Len(dataset) > 0                     \* a dataset without questions is a 400
    /\ run' = [NoRun EXCEPT !.status = "pending",
                            !.total_questions = Len(dataset),
                            !.batch_size = bs,
                            !.pre = npre,
                            !.post = npost]
    /\ pc' = "scheduled"
    /\ UNCHANGED <<dataset, nextId, results, sessStatus, questions, i,
                   completed_questions, total_score, successful_evaluations,
                   dialogflow_results, evaluation_results, sent, raised,
                   expired, cancelPc, cancelCompleted, observed, reqs, faults, unitVars, clockVars>>

\* POST /tests/{id}/cancel
cancel_test_run ==
    /\ run.status \in {"pending", "running"}
    /\ reqs < MaxRequests
    /\ reqs' = reqs + 1
    /\ run' = [run EXCEPT !.status = "cancelled"]
    /\ cancelPc' = IF run.status = "running" THEN pc ELSE "-"
    /\ cancelCompleted' = run.completed_questions
    /\ UNCHANGED <<dataset, nextId, results, execVars, observed, faults, unitVars, clockVars>>

\* PUT /tests/{id}: sets whatever fields the request carries; status is one.
update_test_run(s) ==
    /\ run.status # "absent"
    /\ reqs < MaxRequests
    /\ reqs' = reqs + 1
    /\ run' = [run EXCEPT !.status = s]
    /\ cancelPc' = "-"
    /\ UNCHANGED <<dataset, nextId, results, execVars, cancelCompleted, observed, faults, unitVars, clockVars>>

\* POST /datasets/{id}/questions
add_question ==
    /\ nextId <= MaxQuestions
    /\ reqs < MaxRequests
    /\ reqs' = reqs + 1
    /\ dataset' = Append(dataset, nextId)
    /\ nextId' = nextId + 1
    /\ UNCHANGED <<run, results, execVars, ghostVars, faults, unitVars, clockVars>>

\* DELETE /datasets/questions/{id}: deletes the row; the question_id of the
\* TestResult rows that reference it (Question.test_results has no delete
\* cascade) becomes NULL, written 0.
delete_question(k) ==
    /\ k \in 1..Len(dataset)
    /\ reqs < MaxRequests
    /\ reqs' = reqs + 1
    /\ dataset' = [j \in 1..(Len(dataset) - 1) |->
                      IF j < k THEN dataset[j] ELSE dataset[j + 1]]
    /\ results' = [j \in 1..Len(results) |->
                      IF results[j].question_id = dataset[k]
                      THEN [results[j] EXCEPT !.question_id = 0]
                      ELSE results[j]]
    /\ UNCHANGED <<nextId, run, execVars, ghostVars, faults, unitVars, clockVars>>

\* get_test_progress: reads the committed row.
get_test_progress ==
    /\ run.status # "absent"
    /\ reqs < MaxRequests
    /\ reqs' = reqs + 1
    /\ observed' = run.completed_questions
    /\ UNCHANGED <<dbVars, execVars, cancelPc, cancelCompleted, faults, unitVars, clockVars>>

\* ------------------------------------------------- Agent Conversation API

\* One turn is <<kind, question id, index in its prompt list>>.
Turn(kind, q, k) == <<kind, q, k>>

\* (variant) the main question is sent before the pre-prompts.
MainQuestionFirst(q, npre, npost) ==
    [k \in 1..(npre + 1 + npost) |->
        IF k = 1 THEN Turn("main_question", q, 0)
        ELSE IF k <= npre + 1 THEN Turn("pre_prompt", q, k - 1)
        ELSE Turn("post_prompt", q, k - npre - 1)]

\* The ordered turns of one question: pre-prompts, the main question, post-prompts.
TurnsOf(q, npre, npost) ==
    [k \in 1..(npre + 1 + npost) |->
        IF k <= npre THEN Turn("pre_prompt", q, k)
        ELSE IF k = npre + 1 THEN Turn("main_question", q, 0)
        ELSE Turn("post_prompt", q, k - npre - 1)]

\* detect_intent, when the remote call succeeds.
detect_intent(turn) ==
    [response_text |-> <<"answer", turn[2], turn[3]>>,
     query_text |-> turn,
     response_time_ms |-> 1,
     is_mock |-> FALSE]

\* detect_intent, when it raises: the formatted message of the exception.
detect_intent_error(turn) == <<"Dialogflow API error", turn[2], turn[3]>>

\* (variant) the loop sends the remaining turns after one raised.
SendAllTurns(turns, k, f, log) ==
    [raised |-> f >= k /\ f <= Len(turns),
     sent   |-> log \o SubSeq(turns, k, Len(turns)),
     error  |-> IF f >= k /\ f <= Len(turns) THEN detect_intent_error(turns[f]) ELSE None]

\* The loop of detect_intent_with_message_sequence from turn k on; f is the
\* turn whose remote call raises (0: none).  Yields the turns sent and, when
\* one raised, the exception.
RECURSIVE SendTurns(_, _, _, _)
SendTurns(turns, k, f, log) ==
    IF k > Len(turns) THEN [raised |-> FALSE, sent |-> log, error |-> None]
    ELSE IF k = f
         THEN [raised |-> TRUE, sent |-> Append(log, turns[k]),
               error |-> detect_intent_error(turns[k])]
         ELSE SendTurns(turns, k + 1, f, Append(log, turns[k]))

\* detect_intent_with_message_sequence(main_question = q, ...).  The except
\* branch re-raises with a message that names the main question while
\* main_result is still None and a post-prompt otherwise.
detect_intent_with_message_sequence(q, npre, npost, f) ==
    LET turns == TurnsOf(q, npre, npost)
        out   == SendTurns(turns, 1, f, <<>>)
        main  == detect_intent(turns[npre + 1])
    IN  IF out.raised
        THEN [raised |-> TRUE,
              sent   |-> out.sent,
              error  |-> <<IF f <= npre + 1
                           THEN "Message sequence failed during main question"
                           ELSE "Message sequence failed during post-prompt message",
                           out.error[2], out.error[3]>>]
        ELSE [raised |-> FALSE,
              sent   |-> out.sent,
              result |-> [response_text |-> main.response_text,
                          query_text |-> main.query_text,
                          response_time_ms |-> main.response_time_ms,
                          is_mock |-> FALSE,
                          total_execution_time_ms |-> Len(turns),
                          message_sequence |-> out.sent]]

\* _process_dialogflow_batch, message-sequence branch: one question.
SequenceResult(q, npre, npost, f) ==
    LET r == detect_intent_with_message_sequence(q, npre, npost, f)
    IN  IF r.raised
        THEN [error |-> r.error, execution_time_ms |-> 0,
              response_text |-> NoAnswer, raw_response |-> <<>>]
        ELSE r.result

\* Reading an attribute of an expired Question whose row is gone raises
\* ObjectDeletedError; this is its message.
ObjectDeletedError(q) == <<"Instance has been deleted, or its row is otherwise not present", q, 0>>

\* The first position of the chunk whose question cannot be read (0: none):
\* expired in the session and deleted from the database.
FirstStale(batch, exp, rows) ==
    LET stale == {j \in 1..Len(batch) : batch[j] \in exp /\ batch[j] \notin Range(rows)}
    IN  IF stale = {} THEN 0 ELSE CHOOSE j \in stale : \A k \in stale : j <= k

\* The first position of the chunk whose question has been deleted (0: none).
FirstDeleted(batch, rows) == FirstStale(batch, Range(batch), rows)

\* The questions of the chunk read before position s (all of them when s = 0).
ReadBefore(batch, s) ==
    {batch[j] : j \in 1..(IF s = 0 THEN Len(batch) ELSE s - 1)}

\* (variant) a gathered exception is recorded like a returned result.
GatheredAsReturned(q, ok) == detect_intent(Turn("main_question", q, 0))

\* batch_detect_intent: what it appends for one gathered call.
GatheredResult(q, ok) ==
    IF ok THEN detect_intent(Turn("main_question", q, 0))
    ELSE [error |-> detect_intent_error(Turn("main_question", q, 0)),
          response_time_ms |-> 0, is_mock |-> FALSE]

Pending == [pending |-> TRUE]

\* ------------------------------------------------------------ Judge Model

\* The characters a SCORE line is made of here: digits, a sign, a letter, a blank.
Chars == {"0", "1", "5", "-", "x", " "}

IsDigit(c) == c \in {"0", "1", "5"}

\* \w of the regular expression: letters, digits, underscore.
IsWord(c) == IsDigit(c) \/ c = "x"

DigitValue(c) == CASE c = "0" -> 0 [] c = "1" -> 1 [] c = "5" -> 5

\* int() of a string of digits.
RECURSIVE IntOf(_)
IntOf(ds) ==
    IF ds = <<>> THEN 0
    ELSE 10 * IntOf(SubSeq(ds, 1, Len(ds) - 1)) + DigitValue(ds[Len(ds)])

\* re.search(r'\b(\d+)\b', text): the leftmost run of digits with a word
\* boundary on either side (None when there is none).  A sign before the
\* digits is not a word character and is not part of the match.
SearchNumber(text) ==
    LET runs == {ab \in (1..Len(text)) \X (1..Len(text)) :
                    /\ ab[1] <= ab[2]
                    /\ \A k \in ab[1]..ab[2] : IsDigit(text[k])
                    /\ ab[1] = 1 \/ ~IsWord(text[ab[1] - 1])
                    /\ ab[2] = Len(text) \/ ~IsWord(text[ab[2] + 1])}
    IN  IF runs = {} THEN None
        ELSE LET ab == CHOOSE r \in runs : \A o \in runs : r[1] <= o[1]
             IN  SubSeq(text, ab[1], ab[2])

\* max(0, min(100, raw_score))
Clamp(raw) == IF raw > 100 THEN 100 ELSE IF raw < 0 THEN 0 ELSE raw

\* _parse_parameter_response on a reply with at most one SCORE line (the text
\* after "SCORE:") and possibly a REASONING line: the score, the reasoning
\* and the parsing_errors in the order they are appended.
parse_parameter_response(reply) ==
    LET match == IF reply.score_line THEN SearchNumber(reply.score_text) ELSE None
        score_found == match # None
        raw == IF score_found THEN IntOf(match) ELSE 0
        score == IF score_found THEN Clamp(raw) ELSE 0
    IN  [score |-> score,
         reasoning |-> IF reply.reasoning THEN "reasoning of the reply"
                       ELSE IF ~score_found
                            THEN "Could not parse LLM response - no structured output found"
                            ELSE "No valid response received",
         parsing_errors |->
             (IF reply.score_line
              THEN IF score_found
                   THEN IF raw # score THEN << <<"Score was clamped", raw, score>> >> ELSE <<>>
                   ELSE << <<"No numeric score found in SCORE line", 0, 0>> >>
              ELSE <<>>)
             \o (IF ~reply.reasoning /\ ~score_found
                 THEN << <<"No SCORE or REASONING sections found", 0, 0>> >> ELSE <<>>)
             \o (IF ~score_found
                 THEN << <<"No valid score found in response", 0, 0>> >> ELSE <<>>)]

\* A well-formed reply of the Judge Model: "SCORE: 50" and a REASONING line.
JudgeReply == [score_line |-> TRUE, score_text |-> <<"5", "0">>, reasoning |-> TRUE]

JudgeOutcomes == {"replied", "raised"}

\* evaluate_response: on a model-not-found error the prompt is sent once more,
\* to models/gemini-1.5-flash.
LegacyOutcomes == {"replied", "raised", "not found, other model replied"}

\* (variant) every parameter passed is evaluated.
EveryParam(params) == 1..Len(params)

\* evaluate_with_parameters: the positions of the parameters that are enabled
\* and have a weight above 0; each of them is evaluated.
EnabledParams(params) ==
    {k \in 1..Len(params) : params[k].enabled /\ params[k].weight > 0}

\* _evaluate_single_parameter: builds the prompt, invokes the Judge Model and
\* parses its reply; when the invocation raises, the result is score 0 with
\* the error as reasoning.  model_available is not consulted.
evaluate_single_parameter(o) ==
    IF o = "replied" THEN parse_parameter_response(JudgeReply)
    ELSE [score |-> 0, reasoning |-> "Error evaluating parameter"]

\* The error result of evaluate_with_parameters' except branch.
EvaluationError(msg) ==
    [overall_score |-> 0, parameter_scores |-> <<>>, similarity_score |-> 0,
     evaluation_reasoning |-> "Error during multi-parameter evaluation",
     error |-> msg]

\* evaluate_response: without authentication or an available model it calls
\* self._fallback_evaluation, and so it does when the invocations raise; the
\* class defines no such method, so the call raises AttributeError.
\* Yields what the call returns or raises and whether the model was invoked.
evaluate_response(auth, available, o) ==
    IF ~auth \/ ~available
    THEN [raised |-> TRUE, invoked |-> FALSE,
          error |-> "'LLMJudgeService' object has no attribute '_fallback_evaluation'"]
    ELSE IF o = "replied"
    THEN [raised |-> FALSE, invoked |-> TRUE,
          result |-> [similarity_score |-> 50, evaluation_method |-> "llm_judge"]]
    ELSE IF o = "not found, other model replied"
    THEN [raised |-> FALSE, invoked |-> TRUE,
          result |-> [similarity_score |-> 50, evaluation_method |-> "llm_judge_fallback"]]
    ELSE [raised |-> TRUE, invoked |-> TRUE,
          error |-> "'LLMJudgeService' object has no attribute '_fallback_evaluation'"]

\* evaluate_with_parameters(evaluation_parameters = params) on a service with
\* the given auth_configured / model_available, where outcome[k] is how the
\* Judge Model invocation for parameter k ends and legacy how the one of
\* evaluate_response ends.  Yields the result returned (the fields that
\* execute_test_run reads) and the parameters the model was invoked for
\* (0 stands for the invocation of evaluate_response).  A parameter passed
\* without an id is identified by its position.
evaluate_with_parameters(auth, available, params, outcome, legacy) ==
    LET enabled == EnabledParams(params)
        order   == SelectSeq([k \in 1..Len(params) |-> k], LAMBDA k : k \in enabled)
        r       == evaluate_response(auth, available, legacy)
    IN  IF enabled = {}
        THEN [invoked |-> IF r.invoked THEN <<0>> ELSE <<>>,
              result  |-> IF r.raised THEN EvaluationError(r.error) ELSE r.result]
        ELSE [invoked |-> order,
              result  |->
                  [parameter_scores |->
                       [j \in 1..Len(order) |->
                           LET res == evaluate_single_parameter(outcome[order[j]])
                           IN  [parameter_id |-> Get(params[order[j]], "id", order[j]),
                                score |-> res.score,
                                weight |-> params[order[j]].weight,
                                reasoning |-> res.reasoning,
                                parsing_errors |-> Get(res, "parsing_errors", <<>>)]],
                   evaluation_reasoning |-> "combined reasoning"]]

\* What batch_evaluate_with_parameters yields for one question and the
\* actual_answer handed to it: a scored result, or the error result of
\* evaluate_with_parameters.  The reasoning of a parameter score is the
\* Judge Model's text about the answer it was shown: that answer stands for it.
EvalScored(q, actual_answer, sc) ==
    [overall_score |-> sc,
     parameter_scores |-> <<[parameter_id |-> 1, score |-> sc, weight |-> 100,
                             reasoning |-> actual_answer]>>,
     evaluation_reasoning |-> <<"reasoning", q, sc>>]

EvalFailed(q) ==
    [overall_score |-> 0,
     parameter_scores |-> <<>>,
     evaluation_reasoning |-> <<"Error during multi-parameter evaluation", q, 0>>,
     error |-> <<"evaluation error", q, 0>>]

EvalChoices == {"scored", "failed"}

\* The score the Judge Model gives the answer to question q: some value in
\* 0..100, a different one for different questions.
JudgeScore(q) == 80 + q

EvalResult(q, actual_answer, c) ==
    IF c = "scored" THEN EvalScored(q, actual_answer, JudgeScore(q)) ELSE EvalFailed(q)

\* ------------------------------------------------ evaluation configuration

\* The ids of a set in ascending order.
RECURSIVE Ascending(_)
Ascending(S) ==
    IF S = {} THEN <<>>
    ELSE LET m == CHOOSE x \in S : \A y \in S : x <= y
         IN  <<m>> \o Ascending(S \ {m})

\* (variant) the whole remainder goes to the first parameter.
RemainderToFirst(active, raises) ==
    IF raises \/ active = {} THEN <<>>
    ELSE LET ids == Ascending(active)
             n   == Len(ids)
         IN  [k \in 1..n |->
                 [id |-> ids[k],
                  weight |-> (100 \div n) + (IF k = 1 THEN 100 % n ELSE 0),
                  enabled |-> TRUE]]

\* _get_default_evaluation_parameters: every active parameter, 100 // n each
\* and one more for the first 100 % n of them; [] when there is none or the
\* query raises.
get_default_evaluation_parameters(active, raises) ==
    IF raises \/ active = {} THEN <<>>
    ELSE LET ids == Ascending(active)
             n   == Len(ids)
         IN  [k \in 1..n |->
                 [id |-> ids[k],
                  weight |-> (100 \div n) + (IF k - 1 < 100 % n THEN 1 ELSE 0),
                  enabled |-> TRUE]]

\* (variant) the user's default config goes before the run's own.
UserDefaultFirst(run_config, user_default) ==
    IF user_default # None THEN user_default ELSE run_config

\* The config row _load_evaluation_parameters settles on: the run's own, or
\* else the user's default (None when there is neither).
SelectedConfig(run_config, user_default) ==
    IF run_config # None THEN run_config ELSE user_default

\* How the queries of _load_evaluation_parameters end.
LoadFaults == {"none", "config query raised", "every query raised"}

\* _load_evaluation_parameters: a config is its `parameters` list.  The
\* entries of the selected config whose parameter is still active, with the
\* config's weight and enabled; the defaults when there is no config, when its
\* list is empty, and when anything raises.
load_evaluation_parameters(run_config, user_default, active, fault) ==
    LET eval_config == SelectedConfig(run_config, user_default)
        kept == SelectSeq(eval_config, LAMBDA e : e.parameter_id \in active)
    IN  IF fault # "none"
        THEN get_default_evaluation_parameters(active, fault = "every query raised")
        ELSE IF eval_config = None
        THEN get_default_evaluation_parameters(active, FALSE)
        ELSE [k \in 1..Len(kept) |->
                 [id |-> kept[k].parameter_id,
                  weight |-> kept[k].weight,
                  enabled |-> kept[k].enabled]]

\* _process_evaluation_batch for one question of the chunk: the parameters
\* are loaded, and the question is evaluated by evaluate_with_parameters when
\* the list is not empty, by evaluate_response otherwise (batch_evaluate turns
\* what that raises into an error result).  outcome[k] is how the invocation
\* for the k-th loaded parameter ends.
evaluate_question(auth, available, run_config, user_default, active, fault, outcome, legacy) ==
    LET evaluation_parameters ==
            load_evaluation_parameters(run_config, user_default, active, fault)
        r == evaluate_response(auth, available, legacy)
        e == IF evaluation_parameters # <<>>
             THEN evaluate_with_parameters(auth, available, evaluation_parameters,
                                           outcome, legacy)
             ELSE [invoked |-> IF r.invoked THEN <<0>> ELSE <<>>,
                   result  |-> IF r.raised
                               THEN [similarity_score |-> 0, error |-> r.error]
                               ELSE r.result]
    IN  [evaluation_parameters |-> evaluation_parameters,
         invoked |-> e.invoked, result |-> e.result]

\* --------------------------------------------------- execute_test_run, pure

\* (variant) the quotient is truncated.
Truncated(n, d) == n \div d

\* round() of a non-negative quotient n / d: ties go to the even integer.
PyRound(n, d) ==
    LET q == n \div d
        r == n % d
    IN  IF 2 * r < d THEN q
        ELSE IF 2 * r > d THEN q + 1
        ELSE IF q % 2 = 0 THEN q ELSE q + 1

\* (variant) the average is rounded like the score of a question.
RoundedAverage(total, n) == PyRound(total, n)

\* int(total_score / successful_evaluations): the quotient without its fraction.
AverageScore(total, n) == total \div n

RECURSIVE TotalWeight(_, _)
TotalWeight(ps, k) ==
    IF k > Len(ps) THEN 0 ELSE ps[k].weight + TotalWeight(ps, k + 1)

RECURSIVE TotalWeightedScore(_, _)
TotalWeightedScore(ps, k) ==
    IF k > Len(ps) THEN 0
    ELSE ps[k].score * ps[k].weight + TotalWeightedScore(ps, k + 1)

\* (variant) a question without a weighted parameter result scores 0.
ZeroWhenUnweighted(parameter_scores) ==
    IF parameter_scores # <<>> /\ TotalWeight(parameter_scores, 1) > 0
    THEN <<PyRound(TotalWeightedScore(parameter_scores, 1),
                   TotalWeight(parameter_scores, 1))>>
    ELSE <<0>>

\* computed_overall_score of one question (None when there is none).
ComputedOverallScore(parameter_scores) ==
    IF parameter_scores # <<>> /\ TotalWeight(parameter_scores, 1) > 0
    THEN <<PyRound(TotalWeightedScore(parameter_scores, 1),
                   TotalWeight(parameter_scores, 1))>>
    ELSE None

\* round() of the float that stands for n / d: Python rounds a half to the
\* even neighbour, and a float off the half by its rounding error (err < 0:
\* below, err > 0: above) to the neighbour on that side.
RoundFloat(n, d, err) ==
    IF 2 * (n % d) = d /\ err # 0
    THEN (n \div d) + (IF err > 0 THEN 1 ELSE 0)
    ELSE PyRound(n, d)

\* weight_map of _calculate_weighted_score: the weight of the last config
\* with the parameter_type (33 when there is none).
WeightOfType(parameters_config, t) ==
    LET ks == {k \in 1..Len(parameters_config) : parameters_config[k].parameter_type = t}
    IN  IF ks = {} THEN 33
        ELSE parameters_config[CHOOSE k \in ks : \A m \in ks : m <= k].weight

RECURSIVE MappedWeightedScore(_, _, _)
MappedWeightedScore(parameter_results, parameters_config, k) ==
    IF k > Len(parameter_results) THEN 0
    ELSE parameter_results[k].score
             * WeightOfType(parameters_config, parameter_results[k].parameter_type)
         + MappedWeightedScore(parameter_results, parameters_config, k + 1)

\* _calculate_weighted_score, its aggregate_score: the sum of
\* score * weight / 100 with the weight looked up by parameter_type, scaled by
\* 100 / total_weight when the configs' weights do not sum to 100, rounded and
\* clamped to 0..100.  The sum is a float; err is the sign of its error.
calculate_weighted_score(parameter_results, parameters_config, err) ==
    LET total_weight == TotalWeight(parameters_config, 1)
    IN  IF total_weight > 0
        THEN Clamp(RoundFloat(MappedWeightedScore(parameter_results,
                                                  parameters_config, 1),
                              total_weight, err))
        ELSE 0

\* The TestResult built for the question at position j of the chunk.
TestResultRow(q, df_result, eval_result) ==
    [question_id |-> q,
     actual_answer |-> Get(df_result, "response_text", NoAnswer),
     execution_time_ms |-> Get(df_result, "execution_time_ms", 0),
     error_message |-> Or(Get(df_result, "error", None), Get(eval_result, "error", None)),
     parameter_scores |-> Get(eval_result, "parameter_scores", <<>>)]

\* (variant) the conversation results are taken from the other end of the chunk.
RowsOfReversedResults(batch, dfr, evr, n) ==
    [j \in 1..n |-> TestResultRow(batch[j], dfr[Len(dfr) + 1 - j], evr[j])]

\* The rows flushed for the first n questions of the chunk.
FlushedRows(batch, dfr, evr, n) ==
    [j \in 1..n |-> TestResultRow(batch[j], dfr[j], evr[j])]

RECURSIVE ScoreSum(_, _)
ScoreSum(rows, k) ==
    IF k > Len(rows) THEN 0
    ELSE LET s == ComputedOverallScore(rows[k].parameter_scores)
         IN  (IF s = None THEN 0 ELSE s[1]) + ScoreSum(rows, k + 1)

Scored(rows) ==
    Cardinality({k \in 1..Len(rows) : ComputedOverallScore(rows[k].parameter_scores) # None})

\* The chunk of the loop iteration at offset i.
Batch == SubSeq(questions, i + 1, Min(i + run.batch_size, Len(questions)))

\* What a commit writes to test_runs.status when the session loaded `loaded`
\* and the code assigned `new`: an unchanged attribute is left out of the UPDATE.
StatusWritten(loaded, new, current) == IF loaded = new THEN current ELSE new

\* except Exception: status = "failed", completed_at = now, commit, which
\* also writes the rows flushed in the open transaction.  After a failed
\* flush the session refuses further work until rollback(), which the handler
\* does not call: its commit raises and nothing is written.
ExceptHandler(loaded, usable, rows) ==
    IF usable
    THEN /\ run' = [run EXCEPT !.status = StatusWritten(loaded, "failed", run.status),
                               !.completed_at = TRUE]
         /\ results' = results \o rows
    ELSE UNCHANGED <<run, results>>

\* --------------------------------------------------- execute_test_run, steps

\* How the construction of DialogflowService ends: _initialize_clients raises
\* RuntimeError when the user has no valid credentials.
StartOutcomes == {"constructed", "DialogflowService raised"}

\* Constructs DialogflowService, loads the row, constructs LLMJudgeService,
\* sets status running and started_at, commits.  When the first construction
\* raises, test_run is not bound yet: the except handler's
\* `test_run.status = "failed"` raises UnboundLocalError, nothing is written
\* and the exception leaves execute_test_run.
execute_test_run_start(outcome) ==
    /\ pc = "scheduled"
    /\ outcome \in StartOutcomes
    /\ IF outcome = "constructed"
       THEN /\ run' = [run EXCEPT !.status = StatusWritten(run.status, "running", run.status),
                                  !.started_at = TRUE]
            /\ sessStatus' = "expired"
            /\ pc' = "load"
            /\ faults' = faults
       ELSE /\ faults < MaxFaults
            /\ faults' = faults + 1
            /\ pc' = "done"
            /\ UNCHANGED <<run, sessStatus>>
    /\ UNCHANGED <<dataset, nextId, results, questions, i, completed_questions,
                   total_score, successful_evaluations, dialogflow_results,
                   evaluation_results, sent, raised, expired, ghostVars, reqs, unitVars, clockVars>>

\* Queries the questions of the associated datasets.  None: failed.  Otherwise
\* reads batch_size (which reloads the expired row) and enters the loop;
\* range() with a step of 0 raises ValueError into the except handler.
execute_test_run_load ==
    /\ pc = "load"
    /\ questions' = dataset
    /\ i' = 0
    /\ completed_questions' = 0
    /\ total_score' = 0
    /\ successful_evaluations' = 0
    /\ expired' = {}
    /\ IF dataset = <<>>
       THEN /\ run' = [run EXCEPT !.status = "failed", !.completed_at = TRUE]
            /\ sessStatus' = "expired"
            /\ pc' = "done"
       ELSE /\ sessStatus' = run.status
            /\ IF run.batch_size = 0
               THEN /\ run' = [run EXCEPT !.status = "failed", !.completed_at = TRUE]
                    /\ pc' = "done"
               ELSE /\ run' = run
                    /\ pc' = IF run.batch_size < 0 THEN "final" ELSE "chunk"
    /\ UNCHANGED <<dataset, nextId, results, dialogflow_results,
                   evaluation_results, sent, raised, ghostVars, reqs, faults, unitVars, clockVars>>

\* _process_dialogflow_batch: `if pre_prompt_messages or post_prompt_messages`.
UseMessageSequence == run.pre > 0 \/ run.post > 0

\* f"{session_prefix}_{i}_{int(time.time())}" for the question at index
\* `position` of the chunk, the clock reading t seconds: kept with the
\* question q it is made for (the prefix names the run).
session_id(q, position, t) == <<q, position, t>>

\* Top of a loop iteration: slices the chunk and enters
\* _process_dialogflow_batch.  Without pre/post prompts batch_detect_intent
\* issues one detect_intent per question and gathers them, their session ids
\* made as the tasks are created.
execute_test_run_chunk ==
    /\ pc = "chunk"
    /\ evaluation_results' = <<>>
    /\ IF UseMessageSequence
       THEN /\ dialogflow_results' = <<>>
            /\ sent' = sent
            /\ expired' = expired
            /\ UNCHANGED clockVars
            /\ pc' = "sequence"
       ELSE LET s == FirstStale(Batch, expired, dataset)
            IN  /\ expired' = expired \ ReadBefore(Batch, s)
                /\ IF s > 0
                   THEN \* the question texts cannot be collected: the outer
                        \* except returns an error result for every question
                        /\ dialogflow_results' =
                               [j \in 1..Len(Batch) |->
                                   [error |-> ObjectDeletedError(Batch[s]),
                                    execution_time_ms |-> 0]]
                        /\ sent' = sent
                        /\ UNCHANGED clockVars
                        /\ pc' = "eval"
                   ELSE /\ dialogflow_results' = [j \in 1..Len(Batch) |-> Pending]
                        /\ \E t \in now..MaxClock :
                               /\ now' = t
                               /\ session_ids' = session_ids \o
                                      [j \in 1..Len(Batch) |-> session_id(Batch[j], j - 1, t)]
                        /\ sent' = sent \o [j \in 1..Len(Batch) |->
                                                Turn("main_question", Batch[j], 0)]
                        /\ pc' = "gather"
    /\ UNCHANGED <<dbVars, sessStatus, questions, i, completed_questions,
                   total_score, successful_evaluations, raised, ghostVars, reqs, faults, unitVars>>

\* Message-sequence branch: the next question of the chunk, whose turn f
\* raises (0: none).  An exception becomes that question's error result.
process_dialogflow_batch_sequence(f) ==
    /\ pc = "sequence"
    /\ LET j == Len(dialogflow_results) + 1
           q == Batch[j]
           r == detect_intent_with_message_sequence(q, run.pre, run.post, f)
       IN  /\ f \in 0..Len(TurnsOf(q, run.pre, run.post))
           /\ f > 0 => faults < MaxFaults
           /\ faults' = IF f > 0 THEN faults + 1 ELSE faults
           /\ UNCHANGED unitVars
           /\ IF q \in expired /\ q \notin Range(dataset)
              THEN \* question.question_text cannot be read: no call is made
                   /\ f = 0
                   /\ dialogflow_results' =
                          Append(dialogflow_results,
                                 [error |-> ObjectDeletedError(q), execution_time_ms |-> 0,
                                  response_text |-> NoAnswer, raw_response |-> <<>>])
                   /\ UNCHANGED <<sent, raised, expired, session_ids>>
                   /\ now' \in now..MaxClock
              ELSE /\ dialogflow_results' =
                          Append(dialogflow_results, SequenceResult(q, run.pre, run.post, f))
                   /\ \E t \in now..MaxClock :
                          /\ now' = t
                          /\ session_ids' = Append(session_ids, session_id(q, j - 1, t))
                   /\ sent' = sent \o r.sent
                   /\ raised' = IF r.raised THEN raised \cup {<<q, f>>} ELSE raised
                   /\ expired' = expired \ {q}
           /\ pc' = IF j = Len(Batch) THEN "eval" ELSE "sequence"
    /\ UNCHANGED <<dbVars, sessStatus, questions, i, completed_questions,
                   total_score, successful_evaluations, evaluation_results,
                   ghostVars, reqs>>

\* Batched branch: one of the gathered detect_intent calls returns or raises;
\* the calls complete in any order and the results keep the questions' order.
batch_detect_intent_gather(j, ok) ==
    /\ pc = "gather"
    /\ j \in 1..Len(Batch)
    /\ dialogflow_results[j] = Pending
    /\ ~ok => faults < MaxFaults
    /\ faults' = IF ok THEN faults ELSE faults + 1
    /\ UNCHANGED <<unitVars, clockVars>>
    /\ dialogflow_results' =
           [dialogflow_results EXCEPT ![j] = GatheredResult(Batch[j], ok)]
    /\ raised' = IF ok THEN raised ELSE raised \cup {<<Batch[j], 1>>}
    /\ pc' = IF \A k \in 1..Len(Batch) : k = j \/ dialogflow_results[k] # Pending
             THEN "eval" ELSE "gather"
    /\ UNCHANGED <<dbVars, sessStatus, questions, i, completed_questions,
                   total_score, successful_evaluations, evaluation_results,
                   sent, expired, ghostVars, reqs>>

\* _process_evaluation_batch: reads every question of the chunk, then one
\* evaluation result per question.  A question that cannot be read sends the
\* whole chunk to the except branch: the same error result for every question.
process_evaluation_batch(choice) ==
    /\ pc = "eval"
    /\ choice \in [1..Len(Batch) -> EvalChoices]
    /\ LET s == FirstStale(Batch, expired, dataset)
           failing == IF s > 0 THEN 0
                      ELSE Cardinality({j \in 1..Len(Batch) : choice[j] = "failed"})
       IN  /\ faults + failing <= MaxFaults
           /\ faults' = faults + failing
           /\ UNCHANGED <<unitVars, clockVars>>
           /\ expired' = expired \ ReadBefore(Batch, s)
           /\ evaluation_results' =
                  [j \in 1..Len(Batch) |->
                      IF s > 0
                      THEN [error |-> ObjectDeletedError(Batch[s]), similarity_score |-> 0]
                      ELSE EvalResult(Batch[j],
                                      Get(dialogflow_results[j], "response_text", NoAnswer),
                                      choice[j])]
    /\ pc' = "persist"
    /\ UNCHANGED <<dbVars, sessStatus, questions, i, completed_questions,
                   total_score, successful_evaluations, dialogflow_results,
                   sent, raised, ghostVars, reqs>>

\* (variant) the rows of a chunk are not counted.
CompletedNotCounted(count, rows) == count

\* (variant) the counter restarts with every chunk.
CompletedInChunk(count, rows) == Len(rows)

\* completed_questions += 1 for every row of the chunk.
CompletedAfter(count, rows) == count + Len(rows)

\* How the database lets the persistence of a chunk end: every statement
\* succeeds; a flush raises (the connection is lost); the commit raises.
PersistOutcomes == {"committed", "flush raised", "commit raised"}

\* Saves the chunk: one TestResult per question, each flushed; then the
\* progress counters and the commit.  A question deleted since it was loaded
\* ends the loop at its position d: question.id of an expired object raises
\* ObjectDeletedError with the d - 1 rows before it flushed, and the INSERT for
\* an object read earlier in the chunk violates the foreign key at its flush.
execute_test_run_persist(outcome) ==
    /\ pc = "persist"
    /\ outcome \in PersistOutcomes
    /\ outcome # "committed" => faults < MaxFaults
    /\ faults' = IF outcome # "committed" THEN faults + 1 ELSE faults
    /\ UNCHANGED <<unitVars, clockVars>>
    /\ LET d    == FirstDeleted(Batch, dataset)
           n    == IF d > 0 THEN d - 1 ELSE Len(Batch)
           rows == FlushedRows(Batch, dialogflow_results, evaluation_results, n)
       IN  IF outcome = "flush raised" \/ (d > 0 /\ Batch[d] \notin expired)
           THEN /\ ExceptHandler(sessStatus, FALSE, <<>>)
                /\ pc' = "done"
                /\ UNCHANGED <<sessStatus, completed_questions, total_score,
                               successful_evaluations, expired>>
           ELSE IF d > 0
           THEN /\ ExceptHandler(sessStatus, TRUE, rows)
                /\ pc' = "done"
                /\ UNCHANGED <<sessStatus, completed_questions, total_score,
                               successful_evaluations, expired>>
           ELSE IF outcome = "commit raised"
           THEN /\ ExceptHandler("expired", TRUE, <<>>)
                /\ pc' = "done"
                /\ UNCHANGED <<sessStatus, completed_questions, total_score,
                               successful_evaluations, expired>>
           ELSE /\ results' = results \o rows
                /\ completed_questions' = CompletedAfter(completed_questions, rows)
                /\ total_score' = total_score + ScoreSum(rows, 1)
                /\ successful_evaluations' = successful_evaluations + Scored(rows)
                /\ run' = [run EXCEPT
                             !.completed_questions = completed_questions',
                             !.average_score =
                                 IF successful_evaluations' > 0
                                 THEN AverageScore(total_score', successful_evaluations')
                                 ELSE @]
                /\ sessStatus' = "expired"
                /\ expired' = Range(questions)
                /\ pc' = "refresh"
    /\ UNCHANGED <<dataset, nextId, questions, i, dialogflow_results,
                   evaluation_results, sent, raised, ghostVars, reqs>>

\* (variant) the loop goes on without looking at the status it re-read.
refresh_without_cancel_check ==
    /\ pc = "refresh"
    /\ sessStatus' = run.status
    /\ i' = i + run.batch_size
    /\ pc' = IF i' < Len(questions) THEN "chunk" ELSE "final"
    /\ UNCHANGED <<dbVars, questions, completed_questions, total_score,
                   successful_evaluations, dialogflow_results, evaluation_results,
                   sent, raised, expired, ghostVars, reqs, faults, unitVars, clockVars>>

\* db.refresh(test_run) and the cancellation check, then the loop's next offset.
execute_test_run_refresh ==
    /\ pc = "refresh"
    /\ sessStatus' = run.status
    /\ IF run.status = "cancelled"
       THEN /\ pc' = "final"
            /\ i' = i
       ELSE /\ i' = i + run.batch_size
            /\ pc' = IF i' < Len(questions) THEN "chunk" ELSE "final"
    /\ UNCHANGED <<dbVars, questions, completed_questions, total_score,
                   successful_evaluations, dialogflow_results, evaluation_results,
                   sent, raised, expired, ghostVars, reqs, faults, unitVars, clockVars>>

\* After the loop: completed unless the session saw cancelled; completed_at; commit.
execute_test_run_finish ==
    /\ pc = "final"
    /\ run' = [run EXCEPT
                 !.status = IF sessStatus # "cancelled"
                            THEN StatusWritten(sessStatus, "completed", run.status)
                            ELSE @,
                 !.completed_at = TRUE]
    /\ sessStatus' = "expired"
    /\ pc' = "done"
    /\ UNCHANGED <<dataset, nextId, results, questions, i, completed_questions,
                   total_score, successful_evaluations, dialogflow_results,
                   evaluation_results, sent, raised, expired, ghostVars, reqs, faults, unitVars, clockVars>>

\* ------------------------------------------------------------ specification

Next ==
    \/ \E bs \in BatchSizes, npre \in 0..MaxPrompts, npost \in 0..MaxPrompts :
           create_test_run(bs, npre, npost)
    \/ cancel_test_run
    \/ \E s \in Statuses : update_test_run(s)
    \/ add_question
    \/ \E k \in 1..MaxQuestions : delete_question(k)
    \/ get_test_progress
    \/ \E outcome \in StartOutcomes : execute_test_run_start(outcome)
    \/ execute_test_run_load
    \/ execute_test_run_chunk
    \/ \E f \in 0..(2 * MaxPrompts + 1) : process_dialogflow_batch_sequence(f)
    \/ \E j \in 1..MaxBatch, ok \in BOOLEAN : batch_detect_intent_gather(j, ok)
    \/ \E choice \in [1..Len(Batch) -> EvalChoices] : process_evaluation_batch(choice)
    \/ \E outcome \in PersistOutcomes : execute_test_run_persist(outcome)
    \/ execute_test_run_refresh
    \/ execute_test_run_finish

Spec == Init /\ [][Next]_vars

\* ------------------------------------------- operations applied on their own
\* Each behaviour applies one operation to arguments drawn from bounded sets
\* and keeps the arguments and the outcome in `call`.

\* One conversation of a question with its prompt lists; f is the turn whose
\* remote call raises (0: none).
call_detect_intent_with_message_sequence(q, npre, npost, f) ==
    /\ call = NoCall
    /\ call' = [op |-> "detect_intent_with_message_sequence",
                q |-> q, npre |-> npre, npost |-> npost, f |-> f,
                out |-> detect_intent_with_message_sequence(q, npre, npost, f)]
    /\ UNCHANGED <<runVars, auth_configured, model_available>>

\* Scores a parameter can get (0..100 after clamping) and weights a
\* configuration can hold (Field(ge=0, le=100)): the values used here.
ScoreValues  == {0, 1, 2, 50, 80, 90, 100}
WeightValues == {0, 1, 20, 33, 50, 80, 100}

\* The parameter results of one question: up to MaxParams of them.
ParameterScores ==
    UNION {[1..n -> [parameter_id : {1}, score : ScoreValues, weight : WeightValues]]
               : n \in 0..MaxParams}

\* The overall score derived for one TestResult from its parameter results.
call_computed_overall_score ==
    /\ call = NoCall
    /\ \E ps \in ParameterScores :
           call' = [op |-> "computed_overall_score", parameter_scores |-> ps,
                    out |-> ComputedOverallScore(ps)]
    /\ UNCHANGED <<runVars, auth_configured, model_available>>

\* The texts that can follow "SCORE:".
ScoreTexts == UNION {[1..n -> Chars] : n \in 0..MaxText}

\* Judge Model replies.
Replies == [score_line : BOOLEAN, score_text : ScoreTexts, reasoning : BOOLEAN]

\* Parses one reply of the Judge Model for one parameter.
call_parse_parameter_response ==
    /\ call = NoCall
    /\ \E reply \in Replies :
           /\ reply.score_line \/ reply.score_text = <<>>
           /\ call' = [op |-> "_parse_parameter_response", reply |-> reply,
                       out |-> parse_parameter_response(reply)]
    /\ UNCHANGED <<runVars, auth_configured, model_available>>

\* LLMJudgeService(...): _configure_gemini_auth picks the credentials (auth:
\* it did not raise) and _test_model_availability probes the model (probe: the
\* test query succeeded).
LLMJudgeService_init(auth, probe) ==
    /\ call = NoCall
    /\ auth_configured' = auth
    /\ model_available' = (auth /\ probe)
    /\ call' = [op |-> "LLMJudgeService"]
    /\ UNCHANGED runVars

\* Parameter configurations handed to evaluate_with_parameters.
EvaluationParameters ==
    UNION {[1..n -> [weight : {0, 50}, enabled : BOOLEAN]] : n \in 0..MaxParams}

\* One evaluation of one question on the constructed service.
call_evaluate_with_parameters ==
    /\ call.op = "LLMJudgeService"
    /\ \E params \in EvaluationParameters, legacy \in LegacyOutcomes :
           \E outcome \in [1..Len(params) -> JudgeOutcomes] :
               call' = [op |-> "evaluate_with_parameters", params |-> params,
                        outcome |-> outcome, legacy |-> legacy,
                        out |-> evaluate_with_parameters(auth_configured, model_available,
                                                         params, outcome, legacy)]
    /\ UNCHANGED <<runVars, auth_configured, model_available>>

\* The weights of a stored config by its length: the
\* enabled weights of a config sum to 100.
ConfigWeights == << <<100>>, <<70, 30>>, <<50, 30, 20>>, <<40, 30, 20, 10>> >>

\* The stored configs: one to MaxParams parameters in id order; `own` tells a
\* run's config (weights descending) from a user's default (ascending).
Configs(own) ==
    {[k \in 1..Cardinality(S) |->
         [parameter_id |-> Ascending(S)[k],
          weight |-> ConfigWeights[Cardinality(S)]
                         [IF own THEN k ELSE Cardinality(S) + 1 - k],
          enabled |-> TRUE]]
        : S \in {T \in SUBSET ParameterIds : T # {} /\ Cardinality(T) <= MaxParams}}

\* Loads the evaluation parameters of a run.
call_load_evaluation_parameters ==
    /\ call = NoCall
    /\ \E run_config \in Configs(TRUE) \cup {None},
          user_default \in Configs(FALSE) \cup {None},
          active \in SUBSET ParameterIds, fault \in LoadFaults :
           call' = [op |-> "_load_evaluation_parameters", run_config |-> run_config,
                    user_default |-> user_default, active |-> active, fault |-> fault,
                    out |-> load_evaluation_parameters(run_config, user_default,
                                                       active, fault)]
    /\ UNCHANGED <<runVars, auth_configured, model_available>>

\* Builds the default evaluation parameters over n active parameters;
\* raises: the query for them raises.
call_get_default_evaluation_parameters ==
    /\ call = NoCall
    /\ \E n \in 0..MaxActive, raises \in BOOLEAN :
           call' = [op |-> "_get_default_evaluation_parameters", active |-> 1..n,
                    raises |-> raises,
                    out |-> get_default_evaluation_parameters(1..n, raises)]
    /\ UNCHANGED <<runVars, auth_configured, model_available>>

\* The configs create_test_run stores for a run from the request: distinct
\* parameters in id order, each with a weight and enabled or not.
StoredRunConfigs ==
    UNION {{[k \in 1..Cardinality(S) |->
                [parameter_id |-> Ascending(S)[k], weight |-> c[k].weight,
                 enabled |-> c[k].enabled]]
              : c \in [1..Cardinality(S) -> [weight : {0, 50}, enabled : BOOLEAN]]}
           : S \in {T \in SUBSET ParameterIds : T # {} /\ Cardinality(T) <= MaxParams}}

\* One question evaluated by _process_evaluation_batch on the constructed
\* service, for a run with its own config.
call_process_evaluation_batch ==
    /\ call.op = "LLMJudgeService"
    /\ \E run_config \in StoredRunConfigs, active \in SUBSET ParameterIds,
          legacy \in LegacyOutcomes :
           \E outcome \in [1..Len(run_config) -> JudgeOutcomes] :
               call' = [op |-> "_process_evaluation_batch", run_config |-> run_config,
                        active |-> active, outcome |-> outcome, legacy |-> legacy,
                        out |-> evaluate_question(auth_configured, model_available,
                                                  run_config, None, active, "none",
                                                  outcome, legacy)]
    /\ UNCHANGED <<runVars, auth_configured, model_available>>

\* The enabled parameters of one evaluation, MaxParams at most: parameter
\* types (the parameter's name in lower case, which two parameters can share)
\* and weights above 0.
TypedParameters ==
    UNION {[1..n -> [parameter_type : 1..MaxParams, weight : {20, 33, 80}]]
           : n \in 1..MaxParams}

\* The parameter_results that evaluate_with_parameters builds for the enabled
\* parameters and their scores.
ParameterResults(enabled_params, scores) ==
    [k \in 1..Len(enabled_params) |->
        [parameter_type |-> enabled_params[k].parameter_type,
         score |-> scores[k], weight |-> enabled_params[k].weight]]

\* The overall score of one question, as evaluate_with_parameters returns it
\* and as execute_test_run computes it from the returned parameter_scores.
call_calculate_weighted_score ==
    /\ call = NoCall
    /\ \E enabled_params \in TypedParameters, err \in {-1, 0, 1} :
           \E scores \in [1..Len(enabled_params) -> {0, 1, 50, 100}] :
               LET parameter_results == ParameterResults(enabled_params, scores)
               IN  call' = [op |-> "_calculate_weighted_score",
                            parameter_results |-> parameter_results, err |-> err,
                            overall_score |->
                                calculate_weighted_score(parameter_results,
                                                         enabled_params, err),
                            computed_overall_score |->
                                ComputedOverallScore(parameter_results)]
    /\ UNCHANGED <<runVars, auth_configured, model_available>>

UnitNext ==
    \/ \E q \in 1..MaxQuestions, npre \in 0..MaxSeq, npost \in 0..MaxSeq :
           \E f \in 0..(npre + npost + 1) :
               call_detect_intent_with_message_sequence(q, npre, npost, f)
    \/ call_computed_overall_score
    \/ call_parse_parameter_response
    \/ \E auth \in BOOLEAN, probe \in BOOLEAN : LLMJudgeService_init(auth, probe)
    \/ call_evaluate_with_parameters
    \/ call_load_evaluation_parameters
    \/ call_get_default_evaluation_parameters
    \/ call_process_evaluation_batch
    \/ call_calculate_weighted_score

UnitInit == Init /\ Len(dataset) = 1

UnitSpec == UnitInit /\ [][UnitNext]_vars

\* ------------------- evaluation parameters loaded while requests change them

otherVars == <<dbVars, execVars, ghostVars, faults, clockVars,
               auth_configured, model_available, call>>

\* create_test_run without evaluation_parameters in the request: every active
\* parameter, 100 // n each and the whole remainder for the first; no config
\* when no parameter is active.
default_run_config(act) ==
    IF act = {} THEN None
    ELSE LET ids == Ascending(act)
             n   == Len(ids)
         IN  [k \in 1..n |->
                 [parameter_id |-> ids[k],
                  weight |-> (100 \div n) + (IF k = 1 THEN 100 % n ELSE 0),
                  enabled |-> TRUE]]

\* create_test_run, the evaluation configuration it stores for the run: the
\* request's parameters, which must exist, or the defaults.
create_test_run_config(request) ==
    /\ test_run_config = <<>>
    /\ request \in StoredRunConfigs \cup {None}
    /\ test_run_config' = <<IF request # None THEN request
                             ELSE default_run_config(active_parameters)>>
    /\ UNCHANGED <<active_parameters, default_config, scored, reqs, otherVars>>

\* PUT /parameters/{id} with is_active in the body.
update_evaluation_parameter(p, is_active) ==
    /\ reqs < MaxConfigRequests
    /\ reqs' = reqs + 1
    /\ active_parameters' = IF is_active THEN active_parameters \cup {p} ELSE active_parameters \ {p}
    /\ UNCHANGED <<test_run_config, default_config, scored, otherVars>>

\* POST /configs with is_default: every parameter named must be active; the
\* user's earlier default stops being the default.
create_evaluation_config(config) ==
    /\ reqs < MaxConfigRequests
    /\ config \in Configs(FALSE)
    /\ \A k \in 1..Len(config) : config[k].parameter_id \in active_parameters
    /\ reqs' = reqs + 1
    /\ default_config' = config
    /\ UNCHANGED <<active_parameters, test_run_config, scored, otherVars>>

\* DELETE /configs/{id} of the user's default config (a run's own config is
\* refused with 403, as it is by PUT /configs/{id}).
delete_evaluation_config ==
    /\ reqs < MaxConfigRequests
    /\ default_config # None
    /\ reqs' = reqs + 1
    /\ default_config' = None
    /\ UNCHANGED <<active_parameters, test_run_config, scored, otherVars>>

\* The parameters evaluate_with_parameters scores a question with, as
\* <<parameter id, weight>>: those of the list that are enabled with a weight
\* above 0.
ScoredWith(params) ==
    {<<params[k].id, params[k].weight>> : k \in EnabledParams(params)}

\* _process_evaluation_batch of the run's next chunk: the parameters are
\* loaded and every question of the chunk is scored with them.
process_evaluation_batch_load ==
    /\ test_run_config # <<>>
    /\ Len(scored) < MaxChunks
    /\ scored' = Append(scored,
                        ScoredWith(load_evaluation_parameters(test_run_config[1], default_config,
                                                              active_parameters, "none")))
    /\ UNCHANGED <<active_parameters, test_run_config, default_config, reqs, otherVars>>

ConfigNext ==
    \/ \E request \in StoredRunConfigs \cup {None} : create_test_run_config(request)
    \/ \E p \in ParameterIds, is_active \in BOOLEAN : update_evaluation_parameter(p, is_active)
    \/ \E config \in Configs(FALSE) : create_evaluation_config(config)
    \/ delete_evaluation_config
    \/ process_evaluation_batch_load

ConfigSpec == UnitInit /\ [][ConfigNext]_vars

\* ------------------------------------------------------------------ claims

\* C1: a cancel request accepted while the run is running, at whatever point
\* execute_test_run stands, is final: the status stays cancelled, and
\* execute_test_run never overwrites it with completed or failed.
\* Stated for runs created with a positive batch_size.
CancelWhileRunningIsFinal ==
    /\ cancelPc \in {"load", "chunk", "sequence", "gather", "eval", "persist",
                     "refresh", "final"}
    /\ run.batch_size > 0
    => run.status = "cancelled"

TerminalStatusIsFinal ==
    [][pc = "done" /\ run.status \in Terminal => run'.status = run.status]_vars

\* C4: execute_test_run never ends with the run left in running: whatever
\* is raised after the transition to running, the run ends in a terminal
\* status with completed_at set.  Stated for the executions no API request
\* interferes with.
ExecutionEndsTerminal ==
    [][reqs = 0 /\ pc # "done" /\ pc' = "done"
          => run'.status \in Terminal /\ run'.completed_at]_vars

\* C5: the committed completed_questions of a run never decreases, and what a
\* progress reader was returned is never more than what is committed later.
CompletedQuestionsNonDecreasing ==
    [][/\ run'.completed_questions >= run.completed_questions
       /\ observed' <= run'.completed_questions]_vars

ProgressReadAfterAChunk ==
    /\ observed > 0
    /\ run.completed_questions > observed

\* C6: in every committed state completed_questions <= total_questions, the
\* count create_test_run fixed.
CompletedWithinTotal == run.completed_questions <= run.total_questions

\* C7: in every committed state the run has as many TestResult rows as its
\* completed_questions says, also when the execution ended failed or cancelled.
ResultsMatchProgress == Len(results) = run.completed_questions

\* C8: when execute_test_run finds no question, the run goes from pending to
\* failed directly (running was not committed before), and no conversation
\* turn was sent and no TestResult row exists.
EmptyDatasetFailsFromPending ==
    [][pc = "load" /\ pc' = "done" /\ questions' = <<>>
          => /\ run.status = "pending"
             /\ run'.status = "failed"
             /\ sent' = <<>> /\ results' = <<>>]_vars

\* C9: in the committed chunks every question has exactly one TestResult, at
\* its position; the row of a question whose conversation raised carries the
\* conversation's error and no answer, and the row of every other question
\* carries that question's own answer and no conversation error.  In both
\* modes.
ConversationFailureIsIsolated ==
    /\ \A j, k \in 1..Len(results) :
           results[j].question_id = results[k].question_id /\ results[j].question_id # 0
               => j = k
    /\ \A j \in 1..run.completed_questions :
           LET q == questions[j]
               r == results[j]
           IN  /\ r.question_id = (IF q \in Range(dataset) THEN q ELSE 0)
               /\ IF \E p \in raised : p[1] = q
                  THEN /\ r.error_message # None
                       /\ r.error_message[1] # "evaluation error"
                       /\ r.error_message[2] = q
                       /\ r.actual_answer = NoAnswer
                  ELSE /\ r.actual_answer = <<"answer", q, 0>>
                       /\ r.error_message # None => r.error_message[1] = "evaluation error"

OneOfTwoGatheredCallsRaised ==
    /\ run.pre + run.post = 0
    /\ run.batch_size = 2
    /\ run.completed_questions >= 2
    /\ raised = {<<questions[1], 1>>}
    /\ results[2].actual_answer = <<"answer", questions[2], 0>>
    /\ results[1].error_message # None

\* C10: a question with a turn that raised is recorded with the captured
\* message, execution time 0 and an empty answer; the turns sent for it are
\* the turns up to the one that raised, each once: none after it, and no
\* second attempt.
RaisingTurnEndsTheQuestion ==
    /\ \A p \in raised :
           SelectSeq(sent, LAMBDA t : t[2] = p[1])
               = SubSeq(TurnsOf(p[1], run.pre, run.post), 1, p[2])
    /\ \A j \in 1..run.completed_questions :
           \A p \in raised :
               p[1] = questions[j]
                   => /\ results[j].error_message # None
                      /\ results[j].error_message[2] = p[1]
                      /\ results[j].execution_time_ms = 0
                      /\ results[j].actual_answer = NoAnswer

PrePromptRaisedAndCommitted ==
    /\ run.pre > 0
    /\ run.completed_questions >= 1
    /\ <<questions[1], 1>> \in raised
    /\ results[1].execution_time_ms = 0
    /\ SelectSeq(sent, LAMBDA t : t[2] = questions[1]) = <<Turn("pre_prompt", questions[1], 1)>>

\* The turns of one conversation in the order of its three lists.
ExpectedTranscript(q, npre, npost) ==
    [k \in 1..npre |-> <<"pre_prompt", q, k>>]
        \o << <<"main_question", q, 0>> >>
        \o [k \in 1..npost |-> <<"post_prompt", q, k>>]

\* C11: detect_intent_with_message_sequence sends the pre-prompts in list
\* order, then the main question, then the post-prompts in list order, each
\* turn only after the one before it has returned (nothing follows a turn that
\* raised); the transcript holds the turns in that order under the tags
\* pre_prompt / main_question / post_prompt, and the primary response_text is
\* the response of the main question's turn.
MessageSequenceInOrder ==
    call.op = "detect_intent_with_message_sequence" =>
        LET expected == ExpectedTranscript(call.q, call.npre, call.npost)
        IN  IF call.out.raised
            THEN call.out.sent = SubSeq(expected, 1, call.f)
            ELSE /\ call.out.sent = expected
                 /\ call.out.result.message_sequence = expected
                 /\ call.out.result.response_text = <<"answer", call.q, 0>>
                 /\ call.out.result.query_text = <<"main_question", call.q, 0>>

TwoPreTwoPostReturned ==
    /\ call.op = "detect_intent_with_message_sequence"
    /\ call.npre = 2 /\ call.npost = 2
    /\ ~call.out.raised
    /\ Len(call.out.result.message_sequence) = 5


\* The turns sent so far for the questions of the current chunk, in order.
ChunkTurns == SelectSeq(sent, LAMBDA t : t[2] \in Range(Batch))

\* The turns sent so far for question q, in order.
TurnsSentFor(q) == SelectSeq(sent, LAMBDA t : t[2] = q)

\* The position of question q in the current chunk.
PositionInBatch(q) == CHOOSE j \in 1..Len(Batch) : Batch[j] = q

\* The main questions of the current chunk, in question order.
MainTurnsOfBatch == [j \in 1..Len(Batch) |-> <<"main_question", Batch[j], 0>>]

\* One result per question of the chunk, each about its own question.
OneResultPerQuestion ==
    /\ Len(dialogflow_results) = Len(Batch)
    /\ \A j \in 1..Len(Batch) :
           "query_text" \in DOMAIN dialogflow_results[j] =>
               dialogflow_results[j].query_text = <<"main_question", Batch[j], 0>>

\* C12 as stated: with a non-empty pre- or post-prompt list every question of
\* the chunk gets one message-sequence conversation, one question at a time,
\* and no batched call; with both lists empty the chunk gets one batched call
\* (one main-question turn per question) and no message sequence; either way
\* there is one result per question, in question order.
DispatchByPromptLists ==
    pc = "eval" =>
        /\ OneResultPerQuestion
        /\ IF run.pre + run.post > 0
           THEN /\ \A j \in 1..Len(Batch) :
                       \E n \in 1..(run.pre + run.post + 1) :
                           TurnsSentFor(Batch[j]) =
                               SubSeq(ExpectedTranscript(Batch[j], run.pre, run.post), 1, n)
                /\ \A a, b \in 1..Len(ChunkTurns) :
                       a < b => PositionInBatch(ChunkTurns[a][2]) <= PositionInBatch(ChunkTurns[b][2])
           ELSE /\ ChunkTurns = MainTurnsOfBatch
                /\ \A j \in 1..Len(Batch) :
                       "message_sequence" \notin DOMAIN dialogflow_results[j]

\* What holds of C12 in every state: the dispatch is as stated for every
\* question whose row can still be read when its conversation is due.  A
\* question deleted after an earlier chunk was committed cannot be read: with
\* prompt lists no conversation is held for it, without them the batched call
\* is not made for the chunk at all; error results stand in, one per question.
DispatchByPromptListsOfReadableQuestions ==
    pc = "eval" =>
        /\ OneResultPerQuestion
        /\ IF run.pre + run.post > 0
           THEN /\ \A j \in 1..Len(Batch) :
                       IF Batch[j] \in expired
                       THEN TurnsSentFor(Batch[j]) = <<>>
                       ELSE \E n \in 1..(run.pre + run.post + 1) :
                               TurnsSentFor(Batch[j]) =
                                   SubSeq(ExpectedTranscript(Batch[j], run.pre, run.post), 1, n)
                /\ \A j \in 1..Len(Batch) :
                       "message_sequence" \in DOMAIN dialogflow_results[j] =>
                           dialogflow_results[j].message_sequence =
                               ExpectedTranscript(Batch[j], run.pre, run.post)
                /\ \A a, b \in 1..Len(ChunkTurns) :
                       a < b => PositionInBatch(ChunkTurns[a][2]) <= PositionInBatch(ChunkTurns[b][2])
           ELSE /\ ChunkTurns = IF Range(Batch) \cap expired = {}
                                THEN MainTurnsOfBatch ELSE <<>>
                /\ \A j \in 1..Len(Batch) :
                       "message_sequence" \notin DOMAIN dialogflow_results[j]

TwoQuestionsConversedInSequence ==
    /\ pc = "eval"
    /\ run.pre + run.post > 0
    /\ Len(Batch) = 2
    /\ \A j \in 1..2 : "message_sequence" \in DOMAIN dialogflow_results[j]


\* The offset in `questions` at which the chunk of question q starts.
ChunkStartOf(q) ==
    LET p == CHOOSE k \in 1..Len(questions) : questions[k] = q
    IN  ((p - 1) \div run.batch_size) * run.batch_size

\* C13: no conversation turn and no evaluation of a chunk is issued before
\* the TestResult rows and the progress counter of every earlier chunk have
\* been committed: a question with a turn sent, and the chunk with evaluation
\* results, start at an offset that the committed rows and the committed
\* completed_questions have reached.
EarlierChunksCommittedFirst ==
    /\ \A k \in 1..Len(sent) :
           /\ run.completed_questions >= ChunkStartOf(sent[k][2])
           /\ Len(results) >= ChunkStartOf(sent[k][2])
    /\ pc = "persist" =>            \* the chunk at offset i has been evaluated
           /\ run.completed_questions >= i
           /\ Len(results) >= i

SecondChunkConversed ==
    /\ pc = "persist"
    /\ i > 0
    /\ \E k \in 1..Len(sent) : ChunkStartOf(sent[k][2]) > 0


\* Sums over the parameter results of a call, taken from the last one back.
RECURSIVE SumOfProducts(_)
SumOfProducts(ps) ==
    IF ps = <<>> THEN 0
    ELSE ps[Len(ps)].score * ps[Len(ps)].weight + SumOfProducts(SubSeq(ps, 1, Len(ps) - 1))

RECURSIVE SumOfWeights(_)
SumOfWeights(ps) ==
    IF ps = <<>> THEN 0
    ELSE ps[Len(ps)].weight + SumOfWeights(SubSeq(ps, 1, Len(ps) - 1))

Abs(n) == IF n < 0 THEN 0 - n ELSE n

\* C14: for parameter results with scores in 0..100 and weights whose sum is
\* positive, the overall score of the TestResult is
\* round(sum(score * weight) / sum(weight)): the integer nearest to the
\* weighted mean, the even one of the two when it lies half-way, whether or
\* not the weights sum to 100; it lies in 0..100, and scores 80 and 90 under
\* weights 80 and 20 give 82.
OverallScoreIsRoundedWeightedMean ==
    (call.op = "computed_overall_score" /\ SumOfWeights(call.parameter_scores) > 0) =>
        LET S == SumOfProducts(call.parameter_scores)
            W == SumOfWeights(call.parameter_scores)
        IN  /\ call.out # None
            /\ call.out[1] \in 0..100
            /\ 2 * Abs(call.out[1] * W - S) <= W
            /\ 2 * Abs(call.out[1] * W - S) = W => call.out[1] % 2 = 0
            /\ (/\ Len(call.parameter_scores) = 2
                /\ call.parameter_scores[1].score = 80 /\ call.parameter_scores[1].weight = 80
                /\ call.parameter_scores[2].score = 90 /\ call.parameter_scores[2].weight = 20)
               => call.out = <<82>>

WeightsNotSummingTo100Scored ==
    /\ call.op = "computed_overall_score"
    /\ Len(call.parameter_scores) = 2
    /\ SumOfWeights(call.parameter_scores) = 53
    /\ call.parameter_scores[1].score = 1
    /\ call.parameter_scores[2].score = 90
    /\ call.out # None

RECURSIVE DerivedScores(_)
DerivedScores(rows) ==
    IF rows = <<>> THEN <<>>
    ELSE LET sc == ComputedOverallScore(rows[Len(rows)].parameter_scores)
         IN  DerivedScores(SubSeq(rows, 1, Len(rows) - 1)) \o sc

RECURSIVE SumOf(_)
SumOf(xs) == IF xs = <<>> THEN 0 ELSE xs[1] + SumOf(Tail(xs))

\* C16 as stated: after a chunk is committed, average_score is the mean of
\* the derived overall scores of the TestResults persisted so far.
AverageIsMeanOfScores ==
    (pc = "refresh" /\ DerivedScores(results) # <<>>) =>
        run.average_score * Len(DerivedScores(results)) = SumOf(DerivedScores(results))

\* C16, amended: after a chunk is committed, average_score is the integer
\* part of the mean of the derived overall scores of the TestResults persisted
\* so far that have one; while none has, average_score keeps the value it had
\* (none).
AverageIsTruncatedMeanOfScored ==
    pc = "refresh" =>
        IF DerivedScores(results) # <<>>
        THEN run.average_score = SumOf(DerivedScores(results)) \div Len(DerivedScores(results))
        ELSE run.average_score = NoRun.average_score

TwoChunksAveragedWithFraction ==
    /\ pc = "refresh"
    /\ Len(DerivedScores(results)) >= 2
    /\ SumOf(DerivedScores(results)) % Len(DerivedScores(results)) # 0
    /\ Len(results) > Len(DerivedScores(results))


Clamped(errors) == \E k \in 1..Len(errors) : errors[k][1] = "Score was clamped"

\* C17: _parse_parameter_response always yields a score in 0..100; a reply
\* `SCORE: 150` yields 100 and a reply `SCORE: -5` yields 0, and both record
\* in parsing_errors that the score was clamped.
ParsedScoreClampedBothWays ==
    call.op = "_parse_parameter_response" =>
        /\ call.out.score \in 0..100
        /\ (call.reply.score_line /\ call.reply.score_text = <<"1", "5", "0">>) =>
               (call.out.score = 100 /\ Clamped(call.out.parsing_errors))
        /\ (call.reply.score_line /\ call.reply.score_text = <<"-", "5">>) =>
               (call.out.score = 0 /\ Clamped(call.out.parsing_errors))

\* What holds of C17 in every state: the score is in 0..100, and a number
\* above 100 yields 100 with the clamping recorded.
ParsedScoreInRange ==
    call.op = "_parse_parameter_response" =>
        /\ call.out.score \in 0..100
        /\ (call.reply.score_line /\ call.reply.score_text = <<"1", "5", "0">>) =>
               (call.out.score = 100 /\ Clamped(call.out.parsing_errors))


\* The result that the evaluation in `call` holds for parameter k, if any.
ResultsFor(k) ==
    {r \in Range(call.out.result.parameter_scores) : r.parameter_id = k}

\* A result that says it comes from the fallback scorer.
MarkedAsFallback(r) ==
    \/ r.reasoning = "fallback scoring"
    \/ \E e \in Range(r.parsing_errors) : e[1] = "fallback scoring"

\* C18: when the Judge Model invocation for one parameter of a question
\* raises, the evaluation goes on: that parameter gets a result, produced by
\* the fallback scorer and marked as such in its reasoning or diagnostics, the
\* other parameters are evaluated, and the evaluation returns without error.
RaisingParameterFallsBack ==
    (call.op = "evaluate_with_parameters" /\ EnabledParams(call.params) # {}) =>
        /\ "error" \notin DOMAIN call.out.result
        /\ \A k \in EnabledParams(call.params) :
               /\ Cardinality(ResultsFor(k)) = 1
               /\ call.outcome[k] = "raised" => \A r \in ResultsFor(k) : MarkedAsFallback(r)

\* What holds of C18 in every state: a raising invocation is contained.  Every
\* enabled parameter gets one result, a parameter whose invocation raised
\* gets score 0 with the error as its reasoning, and no error is returned.
RaisingParameterIsContained ==
    (call.op = "evaluate_with_parameters" /\ EnabledParams(call.params) # {}) =>
        /\ "error" \notin DOMAIN call.out.result
        /\ \A k \in EnabledParams(call.params) :
               /\ Cardinality(ResultsFor(k)) = 1
               /\ call.outcome[k] = "raised" =>
                      \A r \in ResultsFor(k) :
                          r.score = 0 /\ r.reasoning = "Error evaluating parameter"

\* C19: on a service whose construction-time probe found the model
\* unavailable (model_available is false), no evaluation invokes the remote
\* Judge Model.
UnavailableModelIsNotInvoked ==
    (call.op = "evaluate_with_parameters" /\ ~model_available) =>
        call.out.invoked = <<>>


\* The evaluation parameters are the active entries of config c, as c weighs them.
TakenFrom(out, c) ==
    /\ {e.id : e \in Range(out)} = {e.parameter_id : e \in Range(c)} \cap call.active
    /\ \A e \in Range(out) :
           \E ce \in Range(c) : ce.parameter_id = e.id /\ ce.weight = e.weight

\* The evaluation parameters are all active parameters, evenly weighted.
EvenOverActive(out) ==
    /\ {e.id : e \in Range(out)} = call.active
    /\ Len(out) = Cardinality(call.active)
    /\ \A a, b \in Range(out) : a.weight - b.weight \in {-1, 0, 1}
    /\ out # <<>> => SumOfWeights(out) = 100

\* The order of the sources: the run's config, else the user's default, else
\* the even weights.
SourcesInOrder ==
    IF call.run_config # None THEN TakenFrom(call.out, call.run_config)
    ELSE IF call.user_default # None THEN TakenFrom(call.out, call.user_default)
    ELSE EvenOverActive(call.out)

\* C20 as stated: the evaluation configuration used for a run is the run's own
\* config if there is one, otherwise the owning user's saved default,
\* otherwise an even-weight distribution over all active parameters; a later
\* source is used only when every earlier one is absent.
ConfigSourcesInOrder ==
    call.op = "_load_evaluation_parameters" => SourcesInOrder

\* C20, amended: the same when the queries of the load return.  When a query
\* for the config raises, the even-weight distribution over the active
\* parameters is used although a config exists, and when that query raises
\* too there are no evaluation parameters.
ConfigSourcesInOrderUnlessRaised ==
    call.op = "_load_evaluation_parameters" =>
        CASE call.fault = "none" -> SourcesInOrder
          [] call.fault = "config query raised" -> EvenOverActive(call.out)
          [] call.fault = "every query raised" -> call.out = <<>>

UserDefaultUsedForRunWithoutConfig ==
    /\ call.op = "_load_evaluation_parameters"
    /\ call.fault = "none"
    /\ call.run_config = None
    /\ call.user_default # None /\ Len(call.user_default) = 2
    /\ Len(call.out) = 2
    /\ call.out[1].weight = 30
    /\ Cardinality(call.active) = 3


\* C21: for n >= 1 active evaluation parameters (returned by its query),
\* _get_default_evaluation_parameters returns n enabled entries, one per
\* active parameter, whose integer weights sum to exactly 100 and differ from
\* each other by at most 1.
DefaultWeightsEvenAndComplete ==
    (/\ call.op = "_get_default_evaluation_parameters"
     /\ ~call.raises
     /\ call.active # {}) =>
        /\ Len(call.out) = Cardinality(call.active)
        /\ {e.id : e \in Range(call.out)} = call.active
        /\ \A e \in Range(call.out) : e.enabled /\ e.weight \in 0..100
        /\ SumOfWeights(call.out) = 100
        /\ \A a, b \in Range(call.out) : a.weight - b.weight \in {-1, 0, 1}

SevenActiveParametersWeighted ==
    /\ call.op = "_get_default_evaluation_parameters"
    /\ ~call.raises
    /\ Cardinality(call.active) = 7
    /\ call.out[1].weight = 15 /\ call.out[7].weight = 14


InAChunk == pc \in {"chunk", "sequence", "gather", "eval", "persist", "refresh"}

\* The chunk at offset i is the next batch_size questions (fewer, but at
\* least one, at the end of the list), and the loop ends, unless cancelled,
\* only when the offsets have covered the list.
ChunksCoverTheQuestions ==
    /\ InAChunk =>
           /\ run.batch_size >= 1
           /\ i % run.batch_size = 0
           /\ i < Len(questions)
           /\ Batch = SubSeq(questions, i + 1, i + Len(Batch))
           /\ Len(Batch) = Min(run.batch_size, Len(questions) - i)
    /\ (pc = "final" /\ sessStatus # "cancelled") => i >= Len(questions)

\* C22: for every batch_size that run creation accepts, execute_test_run
\* splits the loaded questions into consecutive chunks of batch_size questions
\* (the last one of 1..batch_size) whose concatenation is the question list.
EveryBatchSizePartitionsQuestions ==
    questions # <<>> => ChunksCoverTheQuestions

\* What holds of C22 in every state: the same for the runs created with a
\* batch_size of at least 1.
PositiveBatchSizePartitionsQuestions ==
    (questions # <<>> /\ run.batch_size >= 1) => ChunksCoverTheQuestions


\* The number of Judge Model invocations made for parameter p during the call.
InvocationsFor(p) ==
    Cardinality({j \in 1..Len(call.out.invoked) :
                    /\ call.out.invoked[j] # 0
                    /\ call.out.evaluation_parameters[call.out.invoked[j]].id = p})

\* Parameter p is in the run's config, enabled and with a weight above 0, and
\* is active.
Qualifies(p) ==
    /\ p \in call.active
    /\ \E k \in 1..Len(call.run_config) :
           /\ call.run_config[k].parameter_id = p
           /\ call.run_config[k].enabled
           /\ call.run_config[k].weight > 0

SessionIdOf(k) == <<session_ids[k][2], session_ids[k][3]>>

\* Every question that a turn was sent for has one session id, made once for
\* all its turns.
OneSessionPerQuestion ==
    \A q \in {sent[k][2] : k \in 1..Len(sent)} :
        Cardinality({k \in 1..Len(session_ids) : session_ids[k][1] = q}) = 1

\* C24: all turns of a question are sent with one session id, and no two
\* questions of a run, of the same chunk or of different chunks, are sent
\* with the same session id.
SessionIdsNeverShared ==
    /\ OneSessionPerQuestion
    /\ \A a, b \in 1..Len(session_ids) :
           a # b => SessionIdOf(a) # SessionIdOf(b)

\* What holds of C24 in every state: one session id per question, and two
\* questions share a session id only when they stand at the same position of
\* different chunks and their ids were made within the same second.
SessionIdsSharedOnlyAcrossChunksInOneSecond ==
    /\ OneSessionPerQuestion
    /\ \A a, b \in 1..Len(session_ids) :
           (a # b /\ SessionIdOf(a) = SessionIdOf(b)) =>
               /\ ChunkStartOf(session_ids[a][1]) # ChunkStartOf(session_ids[b][1])
               /\ session_ids[a][2] = session_ids[b][2]
               /\ session_ids[a][3] = session_ids[b][3]


\* C25: every chunk of a run, and so every TestResult, is scored with the
\* same parameters and the same weights, whatever requests create, change or
\* deactivate parameters and configurations while the run executes.
SameParametersForEveryResult ==
    \A a, b \in 1..Len(scored) : scored[a] = scored[b]

\* What holds of C25 in every state: a run with a config of its own is scored
\* with entries of that config only, at the weights stored with it.
ScoredWithEntriesOfRunConfig ==
    (test_run_config # <<>> /\ test_run_config[1] # None) =>
        \A c \in 1..Len(scored) :
            \A e \in scored[c] :
                \E k \in 1..Len(test_run_config[1]) :
                    /\ test_run_config[1][k].parameter_id = e[1]
                    /\ test_run_config[1][k].weight = e[2]
                    /\ test_run_config[1][k].enabled


\* C26: a run cancelled while still pending, before execute_test_run has
\* started it, is never executed: no step of execute_test_run changes its
\* status from cancelled, sends a turn or creates a TestResult row.
CancelledWhilePendingNeverExecuted ==
    [][(pc = "scheduled" /\ run.status = "cancelled" /\ reqs' = reqs)
          => /\ run'.status = "cancelled"
             /\ pc' \in {"scheduled", "done"}
             /\ sent' = <<>> /\ results' = <<>>]_vars


\* A TestResult row exists for every question loaded for the run and the
\* committed completed_questions is their number.
EveryLoadedQuestionHasAResult ==
    /\ \A k \in 1..Len(questions) :
           \E r \in 1..Len(results) : results[r].question_id = questions[k]
    /\ run.completed_questions = Len(questions)

\* C27: whenever the status of a run is completed, a TestResult exists for
\* every question loaded for the run and completed_questions equals the
\* number of loaded questions.
CompletedRunHasEveryResult ==
    (run.status = "completed" /\ pc \notin {"none", "scheduled", "load"})
        => EveryLoadedQuestionHasAResult

\* What holds of C27 in every state: the same for the runs created with a
\* batch_size of at least 1 whose status no request has written.
CompletedByExecutionHasEveryResult ==
    (run.status = "completed" /\ pc = "done" /\ run.batch_size >= 1 /\ reqs = 0)
        => EveryLoadedQuestionHasAResult


\* C28: an invocation of execute_test_run that ends before the run has been
\* marked running, because the construction of the conversation client or of
\* the judge service failed, leaves the run failed, not pending.
ConstructionFailureMarksFailed ==
    [][(pc = "scheduled" /\ pc' = "done") => run'.status = "failed"]_vars


\* C29: for every list of parameter results, two parameters of the same
\* parameter_type included, the overall_score that evaluate_with_parameters
\* returns equals the overall score that execute_test_run derives from the
\* same parameter_scores.
OverallScoresAgree ==
    call.op = "_calculate_weighted_score" =>
        call.computed_overall_score = <<call.overall_score>>

\* What holds of C29 in every state: the two scores agree when no two
\* parameters share a parameter_type and the float sum is not off an exact
\* half.
OverallScoresAgreeForDistinctTypesOffTies ==
    (/\ call.op = "_calculate_weighted_score"
     /\ call.err = 0
     /\ \A a, b \in 1..Len(call.parameter_results) :
            a # b => call.parameter_results[a].parameter_type
                         # call.parameter_results[b].parameter_type)
        => call.computed_overall_score = <<call.overall_score>>


\* The answer the agent returns for the main turn of question q.
MainAnswer(q) == detect_intent(TurnsOf(q, 0, 0)[1]).response_text

\* The row holds what belongs to its own question: the answer of that
\* question's main turn or none, parameter scores computed from the answer
\* the row holds, and a conversation or evaluation error of that question.
BelongsToItsQuestion(r) ==
    /\ r.actual_answer \in {NoAnswer, MainAnswer(r.question_id)}
    /\ \A k \in 1..Len(r.parameter_scores) :
           /\ r.parameter_scores[k].reasoning = r.actual_answer
           /\ r.parameter_scores[k].score = JudgeScore(r.question_id)
    /\ (r.error_message # None
            /\ r.error_message[1] \in {"Dialogflow API error", "evaluation error"})
           => r.error_message[2] = r.question_id

\* C30: the TestResult persisted for a question holds the answer returned for
\* that question's own main turn and the parameter scores computed from that
\* answer, never those of another question of the chunk, in whatever order the
\* concurrent calls complete and whichever of them fail.  (question_id 0: the
\* question was deleted afterwards.)
ResultsBelongToTheirQuestion ==
    \A k \in 1..Len(results) :
        results[k].question_id # 0 => BelongsToItsQuestion(results[k])

\* A chunk of two gathered questions: the call of the first raised, the
\* second was answered and scored, and both rows are committed.
FailedAndAnsweredInOneChunk ==
    /\ run.batch_size = 2 /\ ~UseMessageSequence
    /\ Len(results) >= 2
    /\ results[1].question_id = questions[1]
    /\ results[1].error_message # None
    /\ results[1].error_message[1] = "Dialogflow API error"
    /\ results[1].actual_answer = NoAnswer
    /\ results[2].question_id = questions[2]
    /\ results[2].actual_answer = MainAnswer(questions[2])
    /\ results[2].parameter_scores # <<>>


==============================================================================
